---- MODULE Spec2Model ----
(***************************************************************************)
(* Replay engine of backend/app/api/websocket.py: the loader               *)
(* (load_session_data), the interpolator (interpolate_position), the       *)
(* frame assembler (generate_frame), the registry (ConnectionManager) and  *)
(* the per-connection loop (replay_websocket).                             *)
(*                                                                         *)
(* Units.  The loop computes current_time_ms += dt * 1000 * replay_speed   *)
(* on floats.  Here the wall-clock elapsed time dt is a whole number of    *)
(* milliseconds, replay_speed is counted in tenths (1.0 is 10) and every   *)
(* virtual time (current_time_ms, lap bounds, seek targets, timestamps)    *)
(* in tenths of a millisecond, so that the advance dt_ms * speed_tenths    *)
(* is exact.                                                               *)
(***************************************************************************)
EXTENDS Integers, Sequences, FiniteSets, TLC

(***************************************************************************)
(* Python values.                                                          *)
(***************************************************************************)
\* Optional[number]: None is the empty tuple, a number n is <<n>>.
None == <<>>
Some(v) == <<v>>

\* Python truthiness of an Optional number: None and 0 are falsy.
Truthy(x) == x # None /\ x[1] # 0

\* `x or 0`
OrZero(x) == IF Truthy(x) THEN x[1] ELSE 0

\* max(a, b), min(a, b) on numbers
Max(a, b) == IF a >= b THEN a ELSE b
Min(a, b) == IF a <= b THEN a ELSE b

\* A JSON value of a command field: absent key, null, a string, a number.
Absent == [t |-> "absent"]
JNull == [t |-> "null"]
JStr == [t |-> "str"]
JNum(n) == [t |-> "num", v |-> n]

\* ReplayState.replay_speed limits of the speed command, in tenths.
SpeedMin == 1
SpeedMax == 600
\* ReplayState.replay_speed after construction (1.0), and the default of
\* data.get("speed", 1.0).
SpeedDefault == 10

(***************************************************************************)
(* Bounds of the model.                                                    *)
(***************************************************************************)
\* Wall-clock milliseconds between two iterations of a loop: 0..MaxDt.
MaxDt == 2
\* finished messages counted per connection (the counter saturates).
MaxFinishedCount == 2
\* SpecData: lap start times and lap times are drawn up to MaxLapTime.
MaxLapTime == 2
\* SpecTel: a lap's telemetry has up to MaxSamples timestamps, each of
\* 0..MaxStamp.
MaxSamples == 3
MaxStamp == 1

Conns == {"a", "b"}
\* Session ids a viewer may ask for; 3 is not archived.
SessionIds == {1, 2, 3}

(***************************************************************************)
(* The archive (the database tables read by load_session_data).            *)
(***************************************************************************)
Lap(d, n, start, time, pos) ==
    [driver_id |-> d, lap_number |-> n, lap_start_time_ms |-> start,
     lap_time_ms |-> time, position |-> pos, compound |-> "SOFT",
     gap_to_leader_ms |-> None, interval_ms |-> None]

\* A TelemetryFrame row.  A JSON column is held as the list it decodes to; a
\* NULL or empty column is the empty list (`json.loads(x) if x else []`), and
\* parses is FALSE when some column raises JSONDecodeError.
Tel(d, n, ts, xs) ==
    [driver_id |-> d, lap_number |-> n, parses |-> TRUE, timestamps |-> ts,
     pos_x |-> xs, pos_y |-> xs, speed |-> xs, gear |-> xs, drs |-> xs]

Result(d, pos) == [driver_id |-> d, team_id |-> 1, position |-> pos]

\* Session 1: two drivers, two laps each, telemetry for three of the four
\* laps; driver 3 has a lap and telemetry but no result row.
\* Session 2: one driver, no telemetry.
DemoArchive ==
    (1 :> [total_laps |-> Some(2),
           results |-> <<Result(1, Some(2)), Result(2, Some(1))>>,
           laps |-> {Lap(1, 1, Some(0), Some(6), Some(2)),
                     Lap(1, 2, Some(6), Some(6), Some(2)),
                     Lap(2, 1, Some(0), Some(5), Some(1)),
                     Lap(2, 2, Some(5), Some(5), Some(1)),
                     Lap(3, 1, Some(0), Some(9), Some(3))},
           telemetry |-> {Tel(1, 1, <<0, 2, 4>>, <<1, 2, 3>>),
                          Tel(1, 2, <<0, 3>>, <<4, 5>>),
                          Tel(2, 2, <<0, 2, 2>>, <<6, 7, 8>>),
                          Tel(3, 1, <<0>>, <<9>>)}])
    @@
    (2 :> [total_laps |-> None,
           results |-> <<Result(1, None)>>,
           laps |-> {Lap(1, 1, Some(1), Some(7), None)},
           telemetry |-> {}])

(***************************************************************************)
(* load_session_data                                                       *)
(***************************************************************************)
\* ReplayState.__init__
ReplayState(session_id) ==
    [session_id |-> session_id,
     current_time_ms |-> 0,
     current_time_type |-> "number",
     replay_speed |-> SpeedDefault,
     is_playing |-> FALSE,
     total_duration_ms |-> 0,
     total_laps |-> 0,
     current_lap |-> 0,
     drivers |-> <<>>,
     laps |-> <<>>,
     telemetry |-> <<>>]

\* ORDER BY lap_number, driver_id
LapBefore(l, m) ==
    \/ l.lap_number < m.lap_number
    \/ l.lap_number = m.lap_number /\ l.driver_id <= m.driver_id

RECURSIVE SortLaps(_)
SortLaps(S) ==
    IF S = {} THEN <<>>
    ELSE LET first == CHOOSE l \in S : \A m \in S : LapBefore(l, m)
         IN <<first>> \o SortLaps(S \ {first})

\* if lap.lap_start_time_ms and lap.lap_time_ms
CountsForDuration(lap) == Truthy(lap.lap_start_time_ms) /\ Truthy(lap.lap_time_ms)

\* The "Calculate total duration" loop, from lap i on with the running maximum acc.
RECURSIVE DurationFrom(_, _, _)
DurationFrom(laps, i, acc) ==
    IF i > Len(laps) THEN acc
    ELSE IF CountsForDuration(laps[i])
         THEN DurationFrom(laps, i + 1,
                  Max(acc, laps[i].lap_start_time_ms[1] + laps[i].lap_time_ms[1]))
         ELSE DurationFrom(laps, i + 1, acc)

TotalDuration(laps) == DurationFrom(laps, 1, 0)

\* state.drivers: one entry per result row, in the order of the rows.
LoadDrivers(results) ==
    [i \in 1..Len(results) |->
        [driver_id |-> results[i].driver_id,
         team_id |-> results[i].team_id,
         position |-> OrZero(results[i].position)]]

\* state.telemetry: driver_id -> lap_number -> arrays.  A driver gets its
\* (possibly empty) inner dict before its row is decoded; a row that does not
\* decode is skipped.
LoadTelemetry(rows) ==
    [d \in {r.driver_id : r \in rows} |->
        [n \in {r.lap_number : r \in {q \in rows : q.driver_id = d /\ q.parses}} |->
            LET r == CHOOSE q \in rows : q.driver_id = d /\ q.lap_number = n /\ q.parses
            IN [timestamps |-> r.timestamps, pos_x |-> r.pos_x, pos_y |-> r.pos_y,
                speed |-> r.speed, gear |-> r.gear, drs |-> r.drs]]]

\* load_session_data for an archived session (the caller handles `not session`).
LoadSessionData(session_id, rec) ==
    LET laps == SortLaps(rec.laps)
    IN [ReplayState(session_id) EXCEPT
           !.total_laps = OrZero(rec.total_laps),
           !.drivers = LoadDrivers(rec.results),
           !.laps = laps,
           !.total_duration_ms = TotalDuration(laps),
           !.telemetry = LoadTelemetry(rec.telemetry)]

\* The test with lap_end taken as the lap time alone, the start not added.
LapContainsRelativeEnd(lap, time_ms) ==
    /\ lap.lap_start_time_ms # None
    /\ lap.lap_start_time_ms[1] <= time_ms
    /\ time_ms <= OrZero(lap.lap_time_ms)

(***************************************************************************)
(* interpolate_position                                                    *)
(***************************************************************************)
\* lap_start_time_ms <= time_ms <= lap_end, for a lap with a start time
LapContains(lap, time_ms) ==
    /\ lap.lap_start_time_ms # None
    /\ lap.lap_start_time_ms[1] <= time_ms
    /\ time_ms <= lap.lap_start_time_ms[1] + OrZero(lap.lap_time_ms)

\* The scan without its `break`: the last lap of the driver that contains
\* time_ms wins.
RECURSIVE FindLapLast(_, _, _, _)
FindLapLast(laps, driver_id, time_ms, i) ==
    IF i > Len(laps) THEN 0
    ELSE LET later == FindLapLast(laps, driver_id, time_ms, i + 1)
         IN IF later # 0 THEN later
            ELSE IF laps[i].driver_id = driver_id /\ LapContains(laps[i], time_ms)
            THEN i ELSE 0

\* The index in state.laps of the first lap of the driver that contains
\* time_ms, or 0 (current_lap stays None).
RECURSIVE FindLapFrom(_, _, _, _)
FindLapFrom(laps, driver_id, time_ms, i) ==
    IF i > Len(laps) THEN 0
    ELSE IF laps[i].driver_id = driver_id /\ LapContains(laps[i], time_ms) THEN i
    ELSE FindLapFrom(laps, driver_id, time_ms, i + 1)

\* The scan leaving at `t >= lap_time_offset`: a timestamp equal to the offset
\* is not taken.
RECURSIVE ScanIdxNoTies(_, _, _, _)
ScanIdxNoTies(timestamps, offset, i, idx) ==
    IF i > Len(timestamps) THEN idx
    ELSE IF timestamps[i] >= offset THEN idx
    ELSE ScanIdxNoTies(timestamps, offset, i + 1, i - 1)

\* The scan `for i, t in enumerate(timestamps)`: the 0-based idx, entered at
\* the 1-based position i with the idx found so far.
RECURSIVE ScanIdx(_, _, _, _)
ScanIdx(timestamps, offset, i, idx) ==
    IF i > Len(timestamps) THEN idx
    ELSE IF timestamps[i] > offset THEN idx
    ELSE ScanIdx(timestamps, offset, i + 1, i - 1)

\* The index clamped to the array's last element: arr[min(idx, len(arr) - 1)].
SampleClampLast(arr, idx) ==
    IF idx < Len(arr) THEN arr[idx + 1]
    ELSE IF arr = <<>> THEN 0 ELSE arr[Len(arr)]

\* arr[idx] if idx < len(arr) else 0
Sample(arr, idx) == IF idx < Len(arr) THEN arr[idx + 1] ELSE 0

\* The lookup falling back to another lap of the driver when the lap has no
\* telemetry.
GetTelemetryFallback(telemetry, driver_id, lap_number) ==
    IF driver_id \notin DOMAIN telemetry \/ DOMAIN telemetry[driver_id] = {} THEN None
    ELSE IF lap_number \in DOMAIN telemetry[driver_id]
    THEN <<telemetry[driver_id][lap_number]>>
    ELSE <<telemetry[driver_id][CHOOSE n \in DOMAIN telemetry[driver_id] : TRUE]>>

\* tel = state.telemetry.get(driver_id, {}).get(lap_number); None is <<>>
GetTelemetry(telemetry, driver_id, lap_number) ==
    IF driver_id \in DOMAIN telemetry /\ lap_number \in DOMAIN telemetry[driver_id]
    THEN <<telemetry[driver_id][lap_number]>>
    ELSE None

\* interpolate_position: None, or <<the returned dict>>.
InterpolatePosition(state, driver_id, time_ms) ==
    LET k == FindLapFrom(state.laps, driver_id, time_ms, 1)
    IN IF k = 0 THEN None
       ELSE LET current_lap == state.laps[k]
                got == GetTelemetry(state.telemetry, driver_id, current_lap.lap_number)
            IN IF got = None \/ got[1].timestamps = <<>> THEN None
               ELSE LET tel == got[1]
                        idx == ScanIdx(tel.timestamps,
                                       time_ms - current_lap.lap_start_time_ms[1], 1, 0)
                    IN <<[x |-> Sample(tel.pos_x, idx),
                          y |-> Sample(tel.pos_y, idx),
                          speed_kmh |-> Sample(tel.speed, idx),
                          gear |-> Sample(tel.gear, idx),
                          drs_active |-> Sample(tel.drs, idx) > 0,
                          lap_number |-> current_lap.lap_number,
                          position |-> OrZero(current_lap.position),
                          compound |-> current_lap.compound,
                          gap_to_leader_ms |-> current_lap.gap_to_leader_ms,
                          interval_ms |-> current_lap.interval_ms]>>

(***************************************************************************)
(* generate_frame                                                          *)
(***************************************************************************)
\* The dict with the lap_number of the car state copied into it.
CarEntryWithLap(driver_id, pos) ==
    [driver_id |-> driver_id,
     x |-> pos.x,
     y |-> pos.y,
     heading |-> 0,
     speed_kmh |-> pos.speed_kmh,
     position |-> pos.position,
     lap_number |-> pos.lap_number,
     gap_to_leader_ms |-> pos.gap_to_leader_ms,
     interval_ms |-> pos.interval_ms,
     compound |-> pos.compound,
     drs_active |-> pos.drs_active]

\* The dict appended to cars for a driver whose position is pos.
CarEntry(driver_id, pos) ==
    [driver_id |-> driver_id,
     x |-> pos.x,
     y |-> pos.y,
     heading |-> 0,
     speed_kmh |-> pos.speed_kmh,
     position |-> pos.position,
     gap_to_leader_ms |-> pos.gap_to_leader_ms,
     interval_ms |-> pos.interval_ms,
     compound |-> pos.compound,
     drs_active |-> pos.drs_active]

\* The cars list built from the drivers that have telemetry, ids i.. in
\* ascending order, instead of the roster.
RECURSIVE CarsFromTelemetry(_, _)
CarsFromTelemetry(state, i) ==
    IF \A d \in DOMAIN state.telemetry : d < i THEN <<>>
    ELSE LET pos == InterpolatePosition(state, i, state.current_time_ms)
         IN (IF i \in DOMAIN state.telemetry /\ pos # None
             THEN <<CarEntry(i, pos[1])>> ELSE <<>>)
            \o CarsFromTelemetry(state, i + 1)

\* The cars list built from drivers i.. of the roster.
RECURSIVE CarsFrom(_, _)
CarsFrom(state, i) ==
    IF i > Len(state.drivers) THEN <<>>
    ELSE LET d == state.drivers[i].driver_id
             pos == InterpolatePosition(state, d, state.current_time_ms)
         IN (IF pos # None THEN <<CarEntry(d, pos[1])>> ELSE <<>>)
            \o CarsFrom(state, i + 1)

\* key=lambda c: c["position"] if c["position"] else 999
LeaderKey(car) == IF car.position # 0 THEN car.position ELSE 999

\* min(cars, key=...): the first car with the smallest key.
Leader(cars) ==
    LET i == CHOOSE i \in 1..Len(cars) :
                 /\ \A j \in 1..Len(cars) : LeaderKey(cars[i]) <= LeaderKey(cars[j])
                 /\ \A j \in 1..(i - 1) : LeaderKey(cars[j]) > LeaderKey(cars[i])
    IN cars[i]

\* leader.get("lap_number", 0) or 0
LeaderLap(leader) ==
    IF "lap_number" \in DOMAIN leader THEN leader.lap_number ELSE 0

\* state.current_lap after generate_frame
FrameLap(state, cars) ==
    IF cars # <<>> THEN LeaderLap(Leader(cars)) ELSE state.current_lap

\* The message returned by generate_frame.
GenerateFrame(state) ==
    LET cars == CarsFrom(state, 1)
    IN [type |-> "frame",
        timestamp_ms |-> state.current_time_ms,
        current_lap |-> FrameLap(state, cars),
        total_laps |-> state.total_laps,
        replay_speed |-> state.replay_speed,
        cars |-> cars]

\* The state left by generate_frame.
StateAfterFrame(state) ==
    [state EXCEPT !.current_lap = FrameLap(state, CarsFrom(state, 1))]

(***************************************************************************)
(* The commands of a viewer                                                *)
(***************************************************************************)
\* A received JSON object; a JSON text that is no object (data.get fails)
\* and a text that is no JSON (receive_json fails).
Msg(action, time_ms, speed) ==
    [kind |-> "object", action |-> action, time_ms |-> time_ms, speed |-> speed]
NotAnObject == [kind |-> "array"]
NotJson == [kind |-> "garbage"]
\* The iteration's receive timed out.
NoData == [kind |-> "none"]

Play == Msg("play", Absent, Absent)
Pause == Msg("pause", Absent, Absent)
Stop == Msg("stop", Absent, Absent)
Seek(v) == Msg("seek", v, Absent)
Speed(v) == Msg("speed", Absent, v)
Bogus == Msg("rewind", JNum(4), JNum(20))

SeekTimes == {-3, 0, 4, 6, 7, 15}
SpeedValues == {-10, 0, 5, 10000}

Commands ==
    {Play, Pause, Stop, Bogus, NotAnObject, NotJson}
    \cup {Seek(JNum(t)) : t \in SeekTimes} \cup {Seek(Absent), Seek(JNull), Seek(JStr)}
    \cup {Speed(JNum(x)) : x \in SpeedValues} \cup {Speed(Absent), Speed(JNull), Speed(JStr)}

\* The commands of the viewers of SpecMulti.
MultiCommands == {Play, Stop, Seek(JNum(7)), Speed(JNum(5))}

IsSeek(d) == d.kind = "object" /\ d.action = "seek"
IsStop(d) == d.kind = "object" /\ d.action = "stop"
IsSpeed(d) == d.kind = "object" /\ d.action = "speed"
IsNumSeek(d) == IsSeek(d) /\ d.time_ms.t = "num"
IsNumSpeed(d) == IsSpeed(d) /\ d.speed.t = "num"

\* The seek that also pauses the playback.
SeekToPausing(state, v) ==
    CASE v.t = "num" -> [state EXCEPT !.current_time_ms = v.v,
                                      !.current_time_type = "number",
                                      !.is_playing = FALSE]
      [] v.t = "absent" -> [state EXCEPT !.current_time_ms = 0,
                                         !.current_time_type = "number",
                                         !.is_playing = FALSE]
      [] OTHER -> [state EXCEPT !.current_time_ms = 0, !.current_time_type = v.t,
                                !.is_playing = FALSE]

\* state.current_time_ms = data.get("time_ms", 0)
SeekTo(state, v) ==
    CASE v.t = "num" -> [state EXCEPT !.current_time_ms = v.v,
                                      !.current_time_type = "number"]
      [] v.t = "absent" -> [state EXCEPT !.current_time_ms = 0,
                                         !.current_time_type = "number"]
      [] OTHER -> [state EXCEPT !.current_time_ms = 0, !.current_time_type = v.t]

\* The clamp without its upper limit: max(0.1, x).
ClampSpeedNoUpper(x) == Max(SpeedMin, x)

\* max(0.1, min(60.0, x))
ClampSpeed(x) == Max(SpeedMin, Min(SpeedMax, x))

\* The speed command that leaves the speed as it is when the message has no
\* speed: data.get("speed", state.replay_speed).
SetSpeedKeepsOnAbsent(state, v) ==
    [state EXCEPT !.replay_speed =
        ClampSpeed(IF v.t = "absent" THEN state.replay_speed ELSE v.v)]

\* state.replay_speed = max(0.1, min(60.0, data.get("speed", 1.0))), for a
\* value the comparison accepts
SetSpeed(state, v) ==
    [state EXCEPT !.replay_speed =
        ClampSpeed(IF v.t = "absent" THEN SpeedDefault ELSE v.v)]

\* The actions of the if/elif chain.
KnownActions == {"play", "pause", "stop", "seek", "speed"}

\* The handler with the command validated first, an unknown action raising.
CommandRaisesStrict(d) ==
    IF d.kind # "object" THEN TRUE
    ELSE \/ d.action \notin KnownActions
         \/ d.action = "speed" /\ d.speed.t \in {"null", "str"}

\* The receive or the command handler raises: the text is no JSON
\* (JSONDecodeError), the value has no get (AttributeError), or min compares a
\* float with None or with a str (TypeError).
CommandRaises(d) ==
    IF d.kind # "object" THEN TRUE
    ELSE d.action = "speed" /\ d.speed.t \in {"null", "str"}

\* The chain with play written as a toggle of the flag.
ApplyCommandToggle(state, d) ==
    CASE d.action = "play" -> [state EXCEPT !.is_playing = ~state.is_playing]
      [] d.action = "pause" -> [state EXCEPT !.is_playing = FALSE]
      [] d.action = "stop" -> [state EXCEPT !.is_playing = FALSE,
                                            !.current_time_ms = 0,
                                            !.current_time_type = "number"]
      [] d.action = "seek" -> SeekTo(state, d.time_ms)
      [] d.action = "speed" -> SetSpeed(state, d.speed)
      [] OTHER -> state

\* The if/elif chain on action.
ApplyCommand(state, d) ==
    CASE d.action = "play" -> [state EXCEPT !.is_playing = TRUE]
      [] d.action = "pause" -> [state EXCEPT !.is_playing = FALSE]
      [] d.action = "stop" -> [state EXCEPT !.is_playing = FALSE,
                                            !.current_time_ms = 0,
                                            !.current_time_type = "number"]
      [] d.action = "seek" -> SeekTo(state, d.time_ms)
      [] d.action = "speed" -> SetSpeed(state, d.speed)
      [] OTHER -> state

StatusMessage(state) ==
    [type |-> "status",
     is_playing |-> state.is_playing,
     current_time_ms |-> state.current_time_ms,
     current_time_type |-> state.current_time_type,
     replay_speed |-> state.replay_speed]

InitMessage(state) ==
    [type |-> "init",
     total_duration_ms |-> state.total_duration_ms,
     total_laps |-> state.total_laps,
     driver_count |-> Len(state.drivers),
     has_telemetry |-> Cardinality(DOMAIN state.telemetry) > 0]

ErrorMessage == [type |-> "error", message |-> "Session not found"]
FinishedMessage == [type |-> "finished"]

(***************************************************************************)
(* The clock                                                               *)
(***************************************************************************)
\* state.current_time_ms += dt * 1000 * state.replay_speed raises TypeError
\* when a seek stored None or a str.
TickRaises(state) == state.is_playing /\ state.current_time_type # "number"

\* The += with the elapsed time taken backwards, last_frame_time - current_time.
AdvancedBackwards(state, dt) == state.current_time_ms - dt * state.replay_speed

\* current_time_ms after the += of a playing tick
Advanced(state, dt) == state.current_time_ms + dt * state.replay_speed

\* The end test written with > : a clock equal to the duration still frames.
FinishesStrict(state, dt) == Advanced(state, dt) > state.total_duration_ms

\* if state.current_time_ms >= state.total_duration_ms
Finishes(state, dt) == Advanced(state, dt) >= state.total_duration_ms

\* The finishing branch without `state.current_time_ms = total_duration_ms`.
FinishedStateNoClamp(state, dt) ==
    [state EXCEPT !.current_time_ms = state.current_time_ms + dt * state.replay_speed,
                  !.is_playing = FALSE]

\* The state at the end of the finishing branch.
FinishedState(state, dt) ==
    [state EXCEPT !.current_time_ms = state.total_duration_ms,
                  !.is_playing = FALSE]

\* The state at the end of the iteration.
TickState(state, dt) ==
    IF ~state.is_playing THEN state
    ELSE IF Finishes(state, dt) THEN FinishedState(state, dt)
    ELSE StateAfterFrame([state EXCEPT !.current_time_ms = Advanced(state, dt)])

\* A `break` at the end of the finishing branch.
PcAfterTickBreak(state, dt) ==
    IF state.is_playing /\ Finishes(state, dt) THEN "closed" ELSE "recv"

\* `while True`: the loop goes on to its next receive after either branch.
PcAfterTick(state, dt) == "recv"

\* The last two entries of a sequence.
LastTwo(seq) == IF Len(seq) <= 2 THEN seq ELSE SubSeq(seq, Len(seq) - 1, Len(seq))

\* The frame built before `state.current_time_ms += dt * 1000 * replay_speed`.
TickMessagesStale(state, dt) ==
    IF ~state.is_playing THEN <<>>
    ELSE IF Finishes(state, dt) THEN <<FinishedMessage>>
    ELSE <<GenerateFrame(state)>>

\* The tick section without `if state.is_playing:` around the messages.
TickMessagesAlways(state, dt) ==
    IF Finishes(state, dt) THEN <<FinishedMessage>>
    ELSE <<GenerateFrame([state EXCEPT !.current_time_ms = Advanced(state, dt)])>>

\* dt = current_time - last_frame_time, for an iteration whose measurement
\* comes dt after the previous one and a last_frame_time that is lag behind.
Elapsed(lag, dt) == lag + dt

\* last_frame_time refreshed only when the session is playing: the time of a
\* paused iteration stays in the lag (kept below 2 * MaxDt + 1).
LagAfterTickIfPlaying(state, lag, dt) ==
    IF state.is_playing THEN 0 ELSE Min(lag + dt, 2 * MaxDt)

\* last_frame_time = current_time, in every iteration.
LagAfterTick(state, lag, dt) == 0

\* The messages the iteration sends after the status.
TickMessages(state, dt) ==
    IF ~state.is_playing THEN <<>>
    ELSE IF Finishes(state, dt) THEN <<FinishedMessage>>
    ELSE <<GenerateFrame([state EXCEPT !.current_time_ms = Advanced(state, dt)])>>

(***************************************************************************)
(* State                                                                   *)
(***************************************************************************)
VARIABLES
    archive,             \* the archived sessions: session id -> rows
    active_connections,  \* manager.active_connections (its keys)
    replay_states,       \* manager.replay_states: session id -> the ReplayState
                         \* object, named by the connection that loaded it
    pc,                  \* where each connection's replay_websocket stands
    session_id,          \* its path parameter
    st,                  \* the ReplayState object each connection loaded
    data,                \* the command of the current iteration
    sent,                \* the messages sent in the current iteration
    finished_sent,       \* finished messages sent since a seek or a stop last
                         \* left the clock below total_duration_ms
    at_end,              \* a tick finished and no seek or stop came since
    finished_ever,       \* the connection has sent a finished message
    frame_times,         \* timestamp_ms of the last two frames sent since the
                         \* last seek or stop
    frame_time_lag,      \* wall-clock ms by which last_frame_time is behind the
                         \* time measured in the previous iteration
    exit_cause,          \* why the loop was left
    actor                \* the connection that took the last step

vars == <<archive, active_connections, replay_states, pc, session_id, st, data,
          sent, finished_sent, at_end, finished_ever, frame_times,
          frame_time_lag, exit_cause, actor>>

\* No ReplayState yet, or no more.
Unbound == [unbound |-> TRUE]

\* The connection's loop is running (it holds a ReplayState).
Running(c) == pc[c] \in {"recv", "tick"}

\* The loop reading manager.replay_states[session_id] in place of its local.
StateRefViaRegistry(c) ==
    IF session_id[c] \in DOMAIN replay_states THEN replay_states[session_id[c]] ELSE c

\* The ReplayState object the local variable `state` of c's coroutine names.
StateRef(c) == c

InitWith(a) ==
    /\ archive = a
    /\ active_connections = {}
    /\ replay_states = <<>>
    /\ pc = [c \in Conns |-> "new"]
    /\ session_id = [c \in Conns |-> 0]
    /\ st = [c \in Conns |-> Unbound]
    /\ data = [c \in Conns |-> NoData]
    /\ sent = [c \in Conns |-> <<>>]
    /\ finished_sent = [c \in Conns |-> 0]
    /\ at_end = [c \in Conns |-> FALSE]
    /\ finished_ever = [c \in Conns |-> FALSE]
    /\ frame_times = [c \in Conns |-> <<>>]
    /\ frame_time_lag = [c \in Conns |-> 0]
    /\ exit_cause = [c \in Conns |-> "none"]
    /\ actor = "a"

Init == InitWith(DemoArchive)

(***************************************************************************)
(* ConnectionManager                                                       *)
(***************************************************************************)
\* manager.replay_states[session_id] = state
Register(states, sid, c) ==
    [s \in DOMAIN states \cup {sid} |-> IF s = sid THEN c ELSE states[s]]

\* if session_id in manager.replay_states: del manager.replay_states[session_id]
Unregister(states, sid, c) ==
    [s \in DOMAIN states \ {sid} |-> states[s]]

(***************************************************************************)
(* replay_websocket                                                        *)
(***************************************************************************)
\* The finally block without manager.disconnect(client_id).
FinallyKeepsConnection(c, cause) ==
    /\ active_connections' = active_connections
    /\ replay_states' = Unregister(replay_states, session_id[c], c)
    /\ pc' = [pc EXCEPT ![c] = "closed"]
    /\ st' = [st EXCEPT ![c] = Unbound]
    /\ exit_cause' = [exit_cause EXCEPT ![c] = cause]
    /\ actor' = c

\* The finally block, entered for `cause`.
Finally(c, cause) ==
    /\ active_connections' = active_connections \ {c}
    /\ replay_states' = Unregister(replay_states, session_id[c], c)
    /\ pc' = [pc EXCEPT ![c] = "closed"]
    /\ st' = [st EXCEPT ![c] = Unbound]
    /\ exit_cause' = [exit_cause EXCEPT ![c] = cause]
    /\ actor' = c

\* manager.connect: the socket is accepted and filed under client_id.
Connect(c, sid) ==
    /\ pc[c] = "new"
    /\ pc' = [pc EXCEPT ![c] = "loading"]
    /\ session_id' = [session_id EXCEPT ![c] = sid]
    /\ active_connections' = active_connections \cup {c}
    /\ actor' = c
    /\ UNCHANGED <<archive, frame_time_lag, replay_states, st, data, sent, finished_sent, at_end,
                   finished_ever, frame_times, exit_cause>>

\* The load and its error return placed before the try: no finally runs.
LoadMissingOutsideTry(c) ==
    /\ pc[c] = "loading"
    /\ session_id[c] \notin DOMAIN archive
    /\ sent' = [sent EXCEPT ![c] = <<ErrorMessage>>]
    /\ pc' = [pc EXCEPT ![c] = "closed"]
    /\ exit_cause' = [exit_cause EXCEPT ![c] = "not_found"]
    /\ actor' = c
    /\ UNCHANGED <<archive, frame_time_lag, active_connections, replay_states, session_id, st,
                   data, finished_sent, at_end, finished_ever, frame_times>>

\* load_session_data returned None: the error message, then finally.
LoadMissing(c) ==
    /\ pc[c] = "loading"
    /\ session_id[c] \notin DOMAIN archive
    /\ sent' = [sent EXCEPT ![c] = <<ErrorMessage>>]
    /\ Finally(c, "not_found")
    /\ UNCHANGED <<archive, frame_time_lag, session_id, data, finished_sent, at_end, finished_ever,
                   frame_times>>

\* load_session_data returned a state: it is registered and init is sent.
Load(c) ==
    /\ pc[c] = "loading"
    /\ session_id[c] \in DOMAIN archive
    /\ LET state == LoadSessionData(session_id[c], archive[session_id[c]])
       IN /\ st' = [st EXCEPT ![c] = state]
          /\ sent' = [sent EXCEPT ![c] = <<InitMessage(state)>>]
    /\ replay_states' = Register(replay_states, session_id[c], c)
    /\ pc' = [pc EXCEPT ![c] = "recv"]
    /\ actor' = c
    /\ UNCHANGED <<archive, frame_time_lag, active_connections, session_id, data, finished_sent,
                   at_end, finished_ever, frame_times, exit_cause>>

\* A seek or a stop left the clock below total_duration_ms.
MovedBack(d, state) ==
    /\ IsSeek(d) \/ IsStop(d)
    /\ state.current_time_type = "number"
    /\ state.current_time_ms < state.total_duration_ms

\* receive_json returned d within the frame interval and the handler ran to
\* the status message.
Receive(c, d) ==
    /\ pc[c] = "recv"
    /\ ~CommandRaises(d)
    /\ LET r == StateRef(c)
           state == ApplyCommand(st[r], d)
       IN /\ st' = [st EXCEPT ![r] = state]
          /\ sent' = [sent EXCEPT ![c] = <<StatusMessage(state)>>]
          /\ finished_sent' = [finished_sent EXCEPT ![c] =
                                  IF MovedBack(d, state) THEN 0 ELSE @]
    /\ data' = [data EXCEPT ![c] = d]
    /\ at_end' = [at_end EXCEPT ![c] = @ /\ ~IsSeek(d) /\ ~IsStop(d)]
    /\ frame_times' = [frame_times EXCEPT ![c] =
                           IF IsSeek(d) \/ IsStop(d) THEN <<>> ELSE @]
    /\ pc' = [pc EXCEPT ![c] = "tick"]
    /\ actor' = c
    /\ UNCHANGED <<archive, frame_time_lag, active_connections, replay_states, session_id,
                   finished_ever, exit_cause>>

\* receive_json or the handler raised: except Exception, then finally.
ReceiveRaises(c, d) ==
    /\ pc[c] = "recv"
    /\ CommandRaises(d)
    /\ data' = [data EXCEPT ![c] = d]
    /\ sent' = [sent EXCEPT ![c] = <<>>]
    /\ Finally(c, "exception")
    /\ UNCHANGED <<archive, frame_time_lag, session_id, finished_sent, at_end, finished_ever,
                   frame_times>>

\* asyncio.TimeoutError: no command in this iteration.
Timeout(c) ==
    /\ pc[c] = "recv"
    /\ data' = [data EXCEPT ![c] = NoData]
    /\ sent' = [sent EXCEPT ![c] = <<>>]
    /\ pc' = [pc EXCEPT ![c] = "tick"]
    /\ actor' = c
    /\ UNCHANGED <<archive, frame_time_lag, active_connections, replay_states, session_id, st,
                   finished_sent, at_end, finished_ever, frame_times, exit_cause>>

\* "Update time if playing", dt wall-clock milliseconds after the last one.
Tick(c, dt) ==
    /\ pc[c] = "tick"
    /\ LET r == StateRef(c)
           state == st[r]
           elapsed == Elapsed(frame_time_lag[c], dt)
       IN /\ ~TickRaises(state)
          /\ frame_time_lag' = [frame_time_lag EXCEPT ![c] =
                LagAfterTick(state, frame_time_lag[c], dt)]
          /\ st' = [st EXCEPT ![r] = TickState(state, elapsed)]
          /\ sent' = [sent EXCEPT ![c] = @ \o TickMessages(state, elapsed)]
          /\ finished_sent' = [finished_sent EXCEPT ![c] =
                IF state.is_playing /\ Finishes(state, elapsed)
                THEN Min(@ + 1, MaxFinishedCount) ELSE @]
          /\ at_end' = [at_end EXCEPT ![c] =
                @ \/ (state.is_playing /\ Finishes(state, elapsed))]
          /\ finished_ever' = [finished_ever EXCEPT ![c] =
                @ \/ (state.is_playing /\ Finishes(state, elapsed))]
          /\ frame_times' = [frame_times EXCEPT ![c] =
                IF state.is_playing /\ ~Finishes(state, elapsed)
                THEN LastTwo(@ \o <<Advanced(state, elapsed)>>) ELSE @]
          /\ pc' = [pc EXCEPT ![c] = PcAfterTick(state, elapsed)]
    /\ actor' = c
    /\ UNCHANGED <<archive, active_connections, replay_states, session_id, data,
                   exit_cause>>

\* The += of a playing tick raised TypeError: except Exception, then finally.
TickFails(c) ==
    /\ pc[c] = "tick"
    /\ TickRaises(st[StateRef(c)])
    /\ Finally(c, "exception")
    /\ UNCHANGED <<archive, frame_time_lag, session_id, data, sent, finished_sent, at_end,
                   finished_ever, frame_times>>

\* The viewer went away: WebSocketDisconnect out of the receive or out of a
\* send, the break, then finally.
Disconnect(c) ==
    /\ Running(c)
    /\ Finally(c, "disconnect")
    /\ UNCHANGED <<archive, frame_time_lag, session_id, data, sent, finished_sent, at_end,
                   finished_ever, frame_times>>

\* One viewer, every command and every fault.
Next ==
    \/ \E sid \in SessionIds : Connect("a", sid)
    \/ LoadMissing("a")
    \/ Load("a")
    \/ \E d \in Commands : Receive("a", d)
    \/ \E d \in Commands : ReceiveRaises("a", d)
    \/ Timeout("a")
    \/ \E dt \in 0..MaxDt : Tick("a", dt)
    \/ TickFails("a")
    \/ Disconnect("a")

Spec == Init /\ [][Next]_vars

\* Two viewers of archived sessions, a few commands.
NextMulti ==
    \E c \in Conns :
        \/ \E sid \in DOMAIN archive : Connect(c, sid)
        \/ Load(c)
        \/ \E d \in MultiCommands : Receive(c, d)
        \/ Timeout(c)
        \/ Tick(c, 1)
        \/ Disconnect(c)

SpecMulti == Init /\ [][NextMulti]_vars

\* Spec with the loop's own progress: an iteration that got past its receive
\* reaches its tick section, nothing in between awaits the viewer.
\* The tick section of an iteration ran to its end.
TickDone(c) ==
    /\ pc[c] = "tick"
    /\ ~TickRaises(st[StateRef(c)])
    /\ \E dt \in 0..MaxDt :
           pc' = [pc EXCEPT ![c] = PcAfterTick(st[StateRef(c)], dt)]

SpecFair == Spec /\ WF_pc(TickDone("a"))

(***************************************************************************)
(* SpecData: one viewer of session 1, whose laps are drawn.                *)
(***************************************************************************)
\* lap_start_time_ms: NULL, or a time of 0..MaxLapTime.
OptStarts == {None} \cup {Some(t) : t \in 0..MaxLapTime}
\* lap_time_ms: NULL, or a duration of 1..MaxLapTime.
OptLapTimes == {None} \cup {Some(t) : t \in 1..MaxLapTime}

\* position: NULL, or a place.
OptPositions == {None, Some(3)}

\* The TelemetryFrame rows of lap 2: none, one with empty columns, one with a
\* sample.
Lap2Telemetry == {{}, {Tel(1, 2, <<>>, <<>>)}, {Tel(1, 2, <<0>>, <<5>>)}}

\* Session 1 with driver 1 on two laps of the given bounds, lap 1 with the
\* given position and lap 2 with the given telemetry rows; the laps differ in
\* every other column.
DataArchive(s1, t1, p1, s2, t2, tel2) ==
    1 :> [total_laps |-> Some(2),
          results |-> <<Result(1, Some(1))>>,
          laps |-> {Lap(1, 1, s1, t1, p1),
                    [Lap(1, 2, s2, t2, Some(1)) EXCEPT
                        !.compound = "HARD",
                        !.gap_to_leader_ms = Some(7),
                        !.interval_ms = Some(2)]},
          telemetry |-> {Tel(1, 1, <<0, 1>>, <<1, 2>>)} \cup tel2]

InitData ==
    \E s1 \in OptStarts, t1 \in OptLapTimes, p1 \in OptPositions,
       s2 \in OptStarts, t2 \in OptLapTimes, tel2 \in Lap2Telemetry :
        InitWith(DataArchive(s1, t1, p1, s2, t2, tel2))

DataCommands == {Play, Seek(JNum(0)), Seek(JNum(1))}

NextData ==
    \/ Connect("a", 1)
    \/ Load("a")
    \/ \E d \in DataCommands : Receive("a", d)
    \/ Timeout("a")
    \/ \E dt \in {0, 1} : Tick("a", dt)

SpecData == InitData /\ [][NextData]_vars

(***************************************************************************)
(* SpecTel: one viewer of session 1, whose telemetry is drawn.             *)
(***************************************************************************)
\* A value array of n samples, the sample of index i being base + i + 1.
Ramp(n, base) == [i \in 1..n |-> base + i]

\* A TelemetryFrame row with the given timestamps, nx samples of position and
\* nv samples of speed, gear and drs.
TelArrays(d, n, ts, nx, nv) ==
    [driver_id |-> d, lap_number |-> n, parses |-> TRUE, timestamps |-> ts,
     pos_x |-> Ramp(nx, 10), pos_y |-> Ramp(nx, 20), speed |-> Ramp(nv, 30),
     gear |-> Ramp(nv, 40), drs |-> Ramp(nv, 50)]

\* The lap of SpecTel starts at 1 and outlasts every timestamp.
TelLapStart == Some(1)
TelLapTime == Some(MaxStamp + 2)

TimestampLists == UNION {[1..k -> 0..MaxStamp] : k \in 0..MaxSamples}

\* Session 1 with driver 1 on one lap with the given telemetry.
TelArchive(ts, nx, nv) ==
    1 :> [total_laps |-> Some(1),
          results |-> <<Result(1, Some(1))>>,
          laps |-> {Lap(1, 1, TelLapStart, TelLapTime, Some(1))},
          telemetry |-> {TelArrays(1, 1, ts, nx, nv)}]

InitTel ==
    \E ts \in TimestampLists :
        \E nx \in 0..Len(ts), nv \in 0..Len(ts) : InitWith(TelArchive(ts, nx, nv))

TelCommands == {Play} \cup {Seek(JNum(t)) : t \in 0..(MaxStamp + 2)}

NextTel ==
    \/ Connect("a", 1)
    \/ Load("a")
    \/ \E d \in TelCommands : Receive("a", d)
    \/ Timeout("a")
    \/ \E dt \in {0, 1} : Tick("a", dt)

SpecTel == InitTel /\ [][NextTel]_vars

(***************************************************************************)
(* Properties                                                              *)
(***************************************************************************)
\* clamp(x, lo, hi) as the specification writes it
Clamp(x, lo, hi) == IF x < lo THEN lo ELSE IF x > hi THEN hi ELSE x

Last(seq) == seq[Len(seq)]

\* The iteration of c that just ended sent `type` last.
JustSent(c, type) == pc[c] = "recv" /\ sent[c] # <<>> /\ Last(sent[c]).type = type

\* C1: right after a seek command with a numeric time t is applied,
\* current_time_ms = clamp(t, 0, total_duration_ms), also for t < 0 and
\* t > total_duration_ms.
SeekClampsTime ==
    \A c \in Conns :
        pc[c] = "tick" /\ IsNumSeek(data[c]) =>
            st[c].current_time_ms =
                Clamp(data[c].time_ms.v, 0, st[c].total_duration_ms)

\* C2: in every state of a running session whose clock holds a number,
\* 0 <= current_time_ms <= total_duration_ms, and every status and frame
\* message sent carries a time in that range.
TimeWithinDuration ==
    \A c \in Conns :
        Running(c) =>
            /\ st[c].current_time_type = "number" =>
                   /\ 0 <= st[c].current_time_ms
                   /\ st[c].current_time_ms <= st[c].total_duration_ms
            /\ \A i \in 1..Len(sent[c]) :
                   /\ sent[c][i].type = "status"
                      /\ sent[c][i].current_time_type = "number" =>
                          /\ 0 <= sent[c][i].current_time_ms
                          /\ sent[c][i].current_time_ms <= st[c].total_duration_ms
                   /\ sent[c][i].type = "frame" =>
                          /\ 0 <= sent[c][i].timestamp_ms
                          /\ sent[c][i].timestamp_ms <= st[c].total_duration_ms

\* C3: as long as no seek or stop moves the clock back below
\* total_duration_ms, a connection sends finished at most once, also when
\* play commands arrive after the end was reached.
FinishedAtMostOnce == \A c \in Conns : finished_sent[c] <= 1

\* C4: an iteration whose tick reaches the end leaves current_time_ms =
\* total_duration_ms and is_playing false; and once a tick has reached the
\* end, every iteration ends with current_time_ms = total_duration_ms until a
\* seek or a stop is received, whatever play commands arrive.
EndIsSticky ==
    \A c \in Conns :
        /\ JustSent(c, "finished") =>
               /\ st[c].current_time_ms = st[c].total_duration_ms
               /\ ~st[c].is_playing
        /\ pc[c] = "recv" /\ at_end[c] =>
               /\ st[c].current_time_type = "number"
               /\ st[c].current_time_ms = st[c].total_duration_ms

\* A play command arrived after the end and its iteration ran to its end,
\* reaching the end again.
EndIsStickyWitness ==
    /\ pc["a"] = "recv"
    /\ at_end["a"]
    /\ data["a"] = Play
    /\ finished_sent["a"] = 2
    /\ JustSent("a", "finished")

\* The greatest lap_start_time_ms + lap_time_ms over the laps of which both
\* are known, 0 when there is none.
GreatestLapEnd(laps) ==
    LET ends == {l.lap_start_time_ms[1] + l.lap_time_ms[1] :
                    l \in {m \in laps : m.lap_start_time_ms # None
                                        /\ m.lap_time_ms # None}}
    IN IF ends = {} THEN 0 ELSE CHOOSE e \in ends : \A f \in ends : f <= e

\* C5: the total duration of a loaded session is the greatest
\* lap_start_time_ms + lap_time_ms over its laps with both fields known (0
\* without any), laps that start at 0 included.
DurationIsGreatestLapEnd ==
    \A c \in Conns :
        Running(c) =>
            st[c].total_duration_ms = GreatestLapEnd(archive[session_id[c]].laps)

\* C6: every connection whose loop is running has its own Playback Session
\* in the registry, also when another connection replays the same session id
\* or has disconnected.
RunningIsRegistered ==
    \A c \in Conns :
        Running(c) =>
            /\ session_id[c] \in DOMAIN replay_states
            /\ replay_states[session_id[c]] = c

\* C7: a step of one connection (a command, a tick, a disconnect) leaves the
\* Playback Session of every other connection as it is: its clock, flag,
\* speed and dataset.
SessionsIsolated ==
    [][\A b \in Conns : actor' # b => st'[b] = st[b]]_vars

\* Two viewers of the same archived session at different times and speeds.
SessionsIsolatedWitness ==
    /\ Running("a") /\ Running("b")
    /\ session_id["a"] = session_id["b"]
    /\ st["a"].current_time_ms # st["b"].current_time_ms
    /\ st["a"].replay_speed # st["b"].replay_speed
    /\ st["a"].is_playing /\ ~st["b"].is_playing

\* C8: no command that is a JSON object ends the loop with a fault, whatever
\* its action and the values of time_ms and speed.
CommandNeverEndsLoop ==
    \A c \in Conns :
        ~(exit_cause[c] = "exception" /\ data[c].kind = "object")

\* C9: a speed command with a number x stores clamp(x, 0.1, 60.0), and the
\* multiplier of a session is in [0.1, 60.0] in every state.
SpeedInRange ==
    \A c \in Conns :
        Running(c) =>
            /\ SpeedMin <= st[c].replay_speed
            /\ st[c].replay_speed <= SpeedMax
            /\ pc[c] = "tick" /\ IsNumSpeed(data[c]) =>
                   st[c].replay_speed = Clamp(data[c].speed.v, SpeedMin, SpeedMax)

\* speed(1000) was applied and stored 60.0.
SpeedInRangeWitness ==
    /\ pc["a"] = "tick"
    /\ data["a"] = Speed(JNum(10000))
    /\ st["a"].replay_speed = SpeedMax

\* C10: the current lap of a frame with cars is the lap number of the car
\* with the smallest race position, the lap that car is on at the frame's
\* time.
FrameLapIsLeaderLap ==
    \A c \in Conns :
        JustSent(c, "frame") /\ Last(sent[c]).cars # <<>> =>
            LET frame == Last(sent[c])
                leader == CHOOSE car \in {frame.cars[i] : i \in 1..Len(frame.cars)} :
                              \A i \in 1..Len(frame.cars) :
                                  car.position <= frame.cars[i].position
                at == InterpolatePosition(st[c], leader.driver_id, frame.timestamp_ms)
            IN frame.current_lap = at[1].lap_number

\* C11: a seek(t) received in an iteration that emits a frame is applied
\* before that frame: the iteration sends the status first, carrying t, and
\* then the frame, whose timestamp_ms is the clock after the iteration's
\* advance, t plus dt * replay_speed for the dt of that iteration.
SeekVisibleInSameFrame ==
    \A c \in Conns :
        JustSent(c, "frame") /\ IsNumSeek(data[c]) =>
            /\ Len(sent[c]) = 2
            /\ sent[c][1].type = "status"
            /\ sent[c][1].current_time_ms = data[c].time_ms.v
            /\ sent[c][2].timestamp_ms = st[c].current_time_ms
            /\ \E dt \in 0..MaxDt :
                   sent[c][2].timestamp_ms =
                       data[c].time_ms.v + dt * st[c].replay_speed

\* seek(4) arrived while playing and the frame of its iteration is past 4.
SeekVisibleInSameFrameWitness ==
    /\ JustSent("a", "frame")
    /\ data["a"] = Seek(JNum(4))
    /\ sent["a"][1].type = "status"
    /\ Last(sent["a"]).timestamp_ms > 4

\* C12: of two successive frames of a connection with no seek (and no stop)
\* received between them, the later one's timestamp_ms is not below the
\* earlier one's; pauses and speed changes in between do not break this.
FrameTimesNonDecreasing ==
    \A c \in Conns :
        /\ JustSent(c, "frame") =>
               /\ frame_times[c] # <<>>
               /\ Last(frame_times[c]) = Last(sent[c]).timestamp_ms
        /\ Len(frame_times[c]) = 2 => frame_times[c][1] <= frame_times[c][2]

\* Two successive frames of an uninterrupted playback, the second one later.
FrameTimesNonDecreasingWitness ==
    /\ JustSent("a", "frame")
    /\ Len(frame_times["a"]) = 2
    /\ frame_times["a"][1] < frame_times["a"][2]

\* C13: a connection that asked for a session the archive does not hold
\* has been sent the error message and nothing else, is closed, is no longer
\* in active_connections, and no ReplayState is registered under its
\* session id.
MissingSessionOnlyError ==
    \A c \in Conns :
        pc[c] \notin {"new", "loading"} /\ session_id[c] \notin DOMAIN archive =>
            /\ sent[c] = <<ErrorMessage>>
            /\ pc[c] = "closed"
            /\ c \notin active_connections
            /\ session_id[c] \notin DOMAIN replay_states
            /\ st[c] = Unbound

\* The viewer asked for session 3, which is not archived, and was turned away.
MissingSessionOnlyErrorWitness ==
    /\ session_id["a"] = 3
    /\ exit_cause["a"] = "not_found"
    /\ sent["a"] = <<ErrorMessage>>

\* A step of connection c that sends a message.
CanSend(c) ==
    \/ ENABLED LoadMissing(c)
    \/ ENABLED Load(c)
    \/ ENABLED (\E d \in Commands : Receive(c, d))
    \/ ENABLED (\E dt \in 0..MaxDt : Tick(c, dt))

\* C14: once the loop of a connection has ended, by a disconnect met at the
\* receive or at a send or by a fault inside the loop, the connection is out
\* of active_connections and no step that sends it a message is possible.
TerminationCleansUp ==
    \A c \in Conns :
        pc[c] = "closed" => c \notin active_connections /\ ~CanSend(c)

\* The loop ended on a fault of the tick, after the status of its iteration.
TerminationCleansUpWitness ==
    /\ pc["a"] = "closed"
    /\ exit_cause["a"] = "exception"
    /\ sent["a"] # <<>> /\ Last(sent["a"]).type = "status"

\* A play was just applied on a connection that had finished before, with
\* the clock back below the end by more than one advance.
PlayAfterEnd(c) ==
    /\ pc[c] = "tick"
    /\ finished_ever[c]
    /\ data[c] = Play
    /\ st[c].current_time_type = "number"
    /\ st[c].current_time_ms + MaxDt * st[c].replay_speed < st[c].total_duration_ms

Statuses(msgs) == {i \in 1..Len(msgs) : msgs[i].type = "status"}

\* C16: an iteration that received a command (a JSON object) has sent exactly
\* one status message, first of its messages, carrying is_playing,
\* current_time_ms and replay_speed as the command left them; an iteration
\* whose receive timed out has sent no status message.
CommandAcknowledged ==
    \A c \in Conns :
        /\ data[c].kind = "object" =>
               /\ Statuses(sent[c]) = {1}
               /\ pc[c] = "tick" => sent[c] = <<StatusMessage(st[c])>>
        /\ data[c].kind = "none" => Statuses(sent[c]) = {}

\* C17: an iteration that receives a JSON object whose action is none of
\* play, pause, stop, seek and speed goes on to its tick with current_time_ms,
\* is_playing and replay_speed as they were, and sends no error message.
UnknownActionIgnored ==
    [][\A c \in Conns :
          /\ pc[c] = "recv" /\ pc'[c] # "recv"
          /\ exit_cause'[c] # "disconnect"
          /\ data'[c].kind = "object"
          /\ data'[c].action \notin KnownActions
          => /\ pc'[c] = "tick"
             /\ st'[c].current_time_ms = st[c].current_time_ms
             /\ st'[c].current_time_type = st[c].current_time_type
             /\ st'[c].is_playing = st[c].is_playing
             /\ st'[c].replay_speed = st[c].replay_speed
             /\ \A i \in 1..Len(sent'[c]) : sent'[c][i].type # "error"]_vars

\* {"action": "rewind", "time_ms": 4, "speed": 2.0} reached a playing session
\* whose clock is not at 4 and whose speed is not 2.0.
UnknownActionIgnoredWitness ==
    /\ pc["a"] = "tick"
    /\ data["a"] = Bogus
    /\ st["a"].is_playing
    /\ st["a"].current_time_ms # 4
    /\ st["a"].replay_speed # 20

\* The times at which interpolate_position is probed.
ProbeTimes == -1..(2 * MaxLapTime + 1)

\* lap_start < time_ms < lap_start + lap_time, both columns set.
StrictlyInside(lap, time_ms) ==
    /\ lap.lap_start_time_ms # None /\ lap.lap_time_ms # None
    /\ lap.lap_start_time_ms[1] < time_ms
    /\ time_ms < lap.lap_start_time_ms[1] + lap.lap_time_ms[1]

\* The lap's telemetry is loaded and has a timestamp.
HasTelemetry(state, lap) ==
    /\ lap.driver_id \in DOMAIN state.telemetry
    /\ lap.lap_number \in DOMAIN state.telemetry[lap.driver_id]
    /\ state.telemetry[lap.driver_id][lap.lap_number].timestamps # <<>>

\* Lap k of state.laps is the only lap of its driver with time_ms strictly
\* inside, and it has telemetry.
OnlyLapAround(state, k, time_ms) ==
    /\ StrictlyInside(state.laps[k], time_ms)
    /\ \A j \in 1..Len(state.laps) :
           j # k /\ state.laps[j].driver_id = state.laps[k].driver_id =>
               ~StrictlyInside(state.laps[j], time_ms)
    /\ HasTelemetry(state, state.laps[k])

\* No other lap of the driver of lap k has time_ms in its closed interval.
NoOtherLapTouches(state, k, time_ms) ==
    \A j \in 1..Len(state.laps) :
        j # k /\ state.laps[j].driver_id = state.laps[k].driver_id =>
            ~LapContains(state.laps[j], time_ms)

\* C18 as stated: at a time strictly inside exactly one lap of a driver, that
\* lap having telemetry, interpolate_position returns a car state with the
\* lap_number, position, compound, gap and interval of that lap's record.
CarStateIsOfTheLap ==
    \A c \in Conns :
        Running(c) =>
            \A k \in 1..Len(st[c].laps), t \in ProbeTimes :
                OnlyLapAround(st[c], k, t) =>
                    LET lap == st[c].laps[k]
                        got == InterpolatePosition(st[c], lap.driver_id, t)
                    IN /\ got # None
                       /\ got[1].lap_number = lap.lap_number
                       /\ Some(got[1].position) = lap.position
                       /\ got[1].compound = lap.compound
                       /\ got[1].gap_to_leader_ms = lap.gap_to_leader_ms
                       /\ got[1].interval_ms = lap.interval_ms

\* C18 amended: when in addition no other lap of the driver has the time in
\* its closed interval, the car state has the lap_number, compound, gap and
\* interval of that lap's record, and its position, 0 for a NULL position.
CarStateIsOfTheLapOrZero ==
    \A c \in Conns :
        Running(c) =>
            \A k \in 1..Len(st[c].laps), t \in ProbeTimes :
                OnlyLapAround(st[c], k, t) /\ NoOtherLapTouches(st[c], k, t) =>
                    LET lap == st[c].laps[k]
                        got == InterpolatePosition(st[c], lap.driver_id, t)
                    IN /\ got # None
                       /\ got[1].lap_number = lap.lap_number
                       /\ got[1].position = OrZero(lap.position)
                       /\ got[1].compound = lap.compound
                       /\ got[1].gap_to_leader_ms = lap.gap_to_leader_ms
                       /\ got[1].interval_ms = lap.interval_ms

\* A frame was sent at a time strictly inside the one lap around it, whose
\* position is NULL: the car of the frame is at position 0.
CarStateIsOfTheLapOrZeroWitness ==
    /\ JustSent("a", "frame")
    /\ Last(sent["a"]).cars # <<>>
    /\ Last(sent["a"]).cars[1].position = 0
    /\ \E k \in 1..Len(st["a"].laps) :
           /\ OnlyLapAround(st["a"], k, Last(sent["a"]).timestamp_ms)
           /\ NoOtherLapTouches(st["a"], k, Last(sent["a"]).timestamp_ms)
           /\ st["a"].laps[k].position = None

\* The times at which interpolate_position is probed under SpecTel.
TelProbeTimes == 0..(MaxStamp + 4)

NonDecreasing(seq) == \A i \in 1..(Len(seq) - 1) : seq[i] <= seq[i + 1]

\* The 0-based index the claim names: the greatest one whose timestamp is at
\* most offset, 0 when there is none.
GreatestIndexAtMost(timestamps, offset) ==
    LET at == {i \in 1..Len(timestamps) : timestamps[i] <= offset}
    IN IF at = {} THEN 0
       ELSE (CHOOSE i \in at : \A j \in at : j <= i) - 1

\* The telemetry loaded for a lap that HasTelemetry.
TelemetryOf(state, lap) == state.telemetry[lap.driver_id][lap.lap_number]

\* Every value array of tel has a sample for each timestamp.
FullArrays(tel) ==
    \A arr \in {tel.pos_x, tel.pos_y, tel.speed, tel.gear, tel.drs} :
        Len(arr) >= Len(tel.timestamps)

\* C19: for a lap whose timestamps are non-empty and non-decreasing (and whose
\* value arrays are complete), interpolate_position at a time of the lap
\* returns the samples at the greatest index whose timestamp is at most the
\* lap-relative time: the highest index of a tie, index 0 before the first
\* timestamp, the last sample past the last timestamp.
SampleAtGreatestIndex ==
    \A c \in Conns :
        Running(c) =>
            \A k \in 1..Len(st[c].laps), t \in TelProbeTimes :
                LET lap == st[c].laps[k]
                IN /\ LapContains(lap, t) /\ NoOtherLapTouches(st[c], k, t)
                   /\ HasTelemetry(st[c], lap)
                   /\ NonDecreasing(TelemetryOf(st[c], lap).timestamps)
                   /\ FullArrays(TelemetryOf(st[c], lap))
                   => LET tel == TelemetryOf(st[c], lap)
                          got == InterpolatePosition(st[c], lap.driver_id, t)
                          e == GreatestIndexAtMost(tel.timestamps,
                                                   t - lap.lap_start_time_ms[1])
                      IN /\ got # None
                         /\ got[1].x = tel.pos_x[e + 1]
                         /\ got[1].y = tel.pos_y[e + 1]
                         /\ got[1].speed_kmh = tel.speed[e + 1]
                         /\ got[1].gear = tel.gear[e + 1]
                         /\ got[1].drs_active = (tel.drs[e + 1] > 0)

\* A frame was sent at lap-relative time 1 over the timestamps [0, 1, 1]: its
\* car is at the third sample.
SampleAtGreatestIndexWitness ==
    /\ JustSent("a", "frame")
    /\ Last(sent["a"]).timestamp_ms = 2
    /\ Len(st["a"].laps) = 1
    /\ HasTelemetry(st["a"], st["a"].laps[1])
    /\ TelemetryOf(st["a"], st["a"].laps[1]).timestamps = <<0, 1, 1>>
    /\ FullArrays(TelemetryOf(st["a"], st["a"].laps[1]))
    /\ Last(sent["a"]).cars # <<>>
    /\ Last(sent["a"]).cars[1].x = TelemetryOf(st["a"], st["a"].laps[1]).pos_x[3]

\* Some value array of tel is shorter than its timestamps.
ShortArrays(tel) ==
    \E arr \in {tel.pos_x, tel.pos_y, tel.speed, tel.gear, tel.drs} :
        Len(arr) < Len(tel.timestamps)

\* The sample of a non-empty arr at index e clamped to the last element.
ClampedSample(arr, e) == arr[Min(e, Len(arr) - 1) + 1]

\* The sample of arr at index e, 0 beyond the end of arr.
SampleOrZero(arr, e) == IF e < Len(arr) THEN arr[e + 1] ELSE 0

\* C20 as stated: with a value array shorter than the timestamps,
\* interpolate_position returns a car state and the value of each non-empty
\* array is its sample at the index clamped to the array's last element.
ShortArrayClampsToLast ==
    \A c \in Conns :
        Running(c) =>
            \A k \in 1..Len(st[c].laps), t \in TelProbeTimes :
                LET lap == st[c].laps[k]
                IN /\ LapContains(lap, t) /\ NoOtherLapTouches(st[c], k, t)
                   /\ HasTelemetry(st[c], lap)
                   /\ NonDecreasing(TelemetryOf(st[c], lap).timestamps)
                   /\ ShortArrays(TelemetryOf(st[c], lap))
                   => LET tel == TelemetryOf(st[c], lap)
                          got == InterpolatePosition(st[c], lap.driver_id, t)
                          e == GreatestIndexAtMost(tel.timestamps,
                                                   t - lap.lap_start_time_ms[1])
                      IN /\ got # None
                         /\ tel.pos_x # <<>> => got[1].x = ClampedSample(tel.pos_x, e)
                         /\ tel.pos_y # <<>> => got[1].y = ClampedSample(tel.pos_y, e)
                         /\ tel.speed # <<>> =>
                                got[1].speed_kmh = ClampedSample(tel.speed, e)
                         /\ tel.gear # <<>> => got[1].gear = ClampedSample(tel.gear, e)
                         /\ tel.drs # <<>> =>
                                got[1].drs_active = (ClampedSample(tel.drs, e) > 0)

\* C20 amended: with a value array shorter than the timestamps,
\* interpolate_position returns a car state; the value of each array is its
\* sample at the index when the array reaches that far and 0 otherwise
\* (drs_active FALSE).
ShortArrayYieldsZero ==
    \A c \in Conns :
        Running(c) =>
            \A k \in 1..Len(st[c].laps), t \in TelProbeTimes :
                LET lap == st[c].laps[k]
                IN /\ LapContains(lap, t) /\ NoOtherLapTouches(st[c], k, t)
                   /\ HasTelemetry(st[c], lap)
                   /\ NonDecreasing(TelemetryOf(st[c], lap).timestamps)
                   /\ ShortArrays(TelemetryOf(st[c], lap))
                   => LET tel == TelemetryOf(st[c], lap)
                          got == InterpolatePosition(st[c], lap.driver_id, t)
                          e == GreatestIndexAtMost(tel.timestamps,
                                                   t - lap.lap_start_time_ms[1])
                      IN /\ got # None
                         /\ got[1].x = SampleOrZero(tel.pos_x, e)
                         /\ got[1].y = SampleOrZero(tel.pos_y, e)
                         /\ got[1].speed_kmh = SampleOrZero(tel.speed, e)
                         /\ got[1].gear = SampleOrZero(tel.gear, e)
                         /\ got[1].drs_active = (SampleOrZero(tel.drs, e) > 0)

\* A frame was sent at lap-relative time 1 over the timestamps [0, 0, 1] with
\* one sample of position: its car is at x = 0, not at that sample.
ShortArrayYieldsZeroWitness ==
    /\ JustSent("a", "frame")
    /\ Last(sent["a"]).timestamp_ms = 2
    /\ Len(st["a"].laps) = 1
    /\ HasTelemetry(st["a"], st["a"].laps[1])
    /\ TelemetryOf(st["a"], st["a"].laps[1]).timestamps = <<0, 0, 1>>
    /\ Len(TelemetryOf(st["a"], st["a"].laps[1]).pos_x) = 1
    /\ Last(sent["a"]).cars # <<>>
    /\ Last(sent["a"]).cars[1].x = 0

\* The driver ids at which interpolate_position is probed: driver 2 has no
\* row at all under SpecData.
ProbeDrivers == {1, 2}

\* The indexes in state.laps of the laps of a driver.
LapsOf(state, driver_id) ==
    {k \in 1..Len(state.laps) : state.laps[k].driver_id = driver_id}

\* The laps of the driver whose closed interval holds time_ms.
LapsAround(state, driver_id, time_ms) ==
    {k \in LapsOf(state, driver_id) : LapContains(state.laps[k], time_ms)}

\* time_ms is before every known lap start of the driver or after every
\* known lap end.
OutsideLaps(state, driver_id, time_ms) ==
    LET known == {k \in LapsOf(state, driver_id) :
                     state.laps[k].lap_start_time_ms # None}
    IN /\ known # {}
       /\ \/ \A k \in known : time_ms < state.laps[k].lap_start_time_ms[1]
          \/ \A k \in known :
                 time_ms > state.laps[k].lap_start_time_ms[1]
                               + OrZero(state.laps[k].lap_time_ms)

\* Some lap of the driver has no start, and no lap with a start holds time_ms.
OnlyNullStarts(state, driver_id, time_ms) ==
    /\ \E k \in LapsOf(state, driver_id) : state.laps[k].lap_start_time_ms = None
    /\ LapsAround(state, driver_id, time_ms) = {}

\* The lap of lowest lap_number around time_ms has no telemetry, or telemetry
\* without a timestamp.
LocatedLapHasNoTelemetry(state, driver_id, time_ms) ==
    LET around == LapsAround(state, driver_id, time_ms)
    IN /\ around # {}
       /\ LET k == CHOOSE i \in around :
                       \A j \in around :
                           state.laps[i].lap_number <= state.laps[j].lap_number
          IN ~HasTelemetry(state, state.laps[k])

\* C21: interpolate_position returns None when the driver has no laps, when
\* the time is before the driver's first lap start or after the last lap end,
\* when only laps without a start could hold the time, and when the located
\* lap has no telemetry or telemetry without timestamps.
UnavailableCases ==
    \A c \in Conns :
        Running(c) =>
            \A d \in ProbeDrivers, t \in ProbeTimes :
                \/ LapsOf(st[c], d) = {}
                \/ OutsideLaps(st[c], d, t)
                \/ OnlyNullStarts(st[c], d, t)
                \/ LocatedLapHasNoTelemetry(st[c], d, t)
                => InterpolatePosition(st[c], d, t) = None

\* A frame without cars was sent at a time inside lap 2 of driver 1, whose
\* telemetry row is missing, while lap 1 has telemetry.
UnavailableCasesWitness ==
    /\ JustSent("a", "frame")
    /\ Last(sent["a"]).cars = <<>>
    /\ LocatedLapHasNoTelemetry(st["a"], 1, Last(sent["a"]).timestamp_ms)
    /\ 1 \in DOMAIN st["a"].telemetry
    /\ 2 \notin DOMAIN st["a"].telemetry[1]
    /\ LapsOf(st["a"], 2) = {}

\* The drivers declared in the results of the session of connection c.
Roster(c) ==
    LET results == archive[session_id[c]].results
    IN {results[i].driver_id : i \in 1..Len(results)}

\* The drivers with a lap or a telemetry row in the session of connection c.
DriversWithData(c) ==
    {l.driver_id : l \in archive[session_id[c]].laps}
    \cup {r.driver_id : r \in archive[session_id[c]].telemetry}

\* C22: the cars of a frame are, one entry each, the roster drivers for which
\* interpolate_position at the frame's time returns a car state; a driver
\* outside the roster has no entry, whatever laps and telemetry it has.
CarsAreAvailableRoster ==
    \A c \in Conns :
        JustSent(c, "frame") =>
            LET frame == Last(sent[c])
                shown == {frame.cars[i].driver_id : i \in 1..Len(frame.cars)}
            IN /\ shown = {d \in Roster(c) :
                              InterpolatePosition(st[c], d, frame.timestamp_ms) # None}
               /\ \A i, j \in 1..Len(frame.cars) :
                      frame.cars[i].driver_id = frame.cars[j].driver_id => i = j
               /\ \A d \in DriversWithData(c) \ Roster(c) : d \notin shown

\* A frame with the one roster driver that is available: driver 2 is in the
\* roster and unavailable, driver 3 is available and not in the roster.
CarsAreAvailableRosterWitness ==
    /\ JustSent("a", "frame")
    /\ Len(Last(sent["a"]).cars) = 1
    /\ Last(sent["a"]).cars[1].driver_id = 1
    /\ 2 \in Roster("a") /\ 3 \notin Roster("a")
    /\ InterpolatePosition(st["a"], 2, Last(sent["a"]).timestamp_ms) = None
    /\ InterpolatePosition(st["a"], 3, Last(sent["a"]).timestamp_ms) # None

HasFrame(msgs) == \E i \in 1..Len(msgs) : msgs[i].type = "frame"

\* C24: a session is loaded paused at time 0 with speed 1.0; the tick section
\* sends a frame only when the session is playing once the iteration's
\* command has been applied, and the session is still playing afterwards; and
\* only a play command turns the flag on.
FrameOnlyWhilePlaying ==
    /\ [](\A c \in Conns :
            /\ pc[c] = "recv" /\ sent[c] # <<>> /\ sent[c][1].type = "init" =>
                   /\ ~st[c].is_playing
                   /\ st[c].current_time_ms = 0 /\ st[c].current_time_type = "number"
                   /\ st[c].replay_speed = SpeedDefault
            /\ pc[c] = "tick" => ~HasFrame(sent[c])
            /\ pc[c] = "recv" /\ HasFrame(sent[c]) => st[c].is_playing)
    /\ [][\A c \in Conns :
              /\ pc[c] = "tick" /\ HasFrame(sent'[c]) => st[c].is_playing
              /\ Running(c) /\ Running(c)' /\ ~st[c].is_playing /\ st'[c].is_playing
                     => data'[c] = Play]_vars

\* After frames were sent, the iteration of a pause command sent its status
\* and no frame.
FrameOnlyWhilePlayingWitness ==
    /\ pc["a"] = "recv"
    /\ data["a"] = Pause
    /\ frame_times["a"] # <<>>
    /\ ~st["a"].is_playing
    /\ Len(sent["a"]) = 1 /\ sent["a"][1].type = "status"

\* C25: a command applied to the state it has just produced changes nothing:
\* for play, pause, stop, every seek and every speed the handler accepts,
\* applying it twice gives the state of applying it once.
CommandsIdempotent ==
    \A c \in Conns :
        /\ pc[c] = "tick" /\ data[c].kind = "object" =>
               ApplyCommand(st[c], data[c]) = st[c]
        /\ Running(c) =>
               \A d \in Commands :
                   ~CommandRaises(d) =>
                       ApplyCommand(ApplyCommand(st[c], d), d) = ApplyCommand(st[c], d)

\* A play command was applied to a session that was sending frames.
CommandsIdempotentWitness ==
    /\ pc["a"] = "tick"
    /\ data["a"] = Play
    /\ st["a"].is_playing
    /\ frame_times["a"] # <<>>
    /\ ApplyCommand(st["a"], Play) = st["a"]

\* The fields in which two states differ.
Changed(s, t) == {f \in DOMAIN s : s[f] # t[f]}

\* The clock: its value and the type of its value.
ClockFields == {"current_time_ms", "current_time_type"}

\* The fields a command with this action may change.
FieldsOf(action) ==
    CASE action \in {"play", "pause"} -> {"is_playing"}
      [] action = "stop" -> {"is_playing"} \cup ClockFields
      [] action = "seek" -> ClockFields
      [] action = "speed" -> {"replay_speed"}
      [] OTHER -> {}

\* C26: the handler of a command changes no field of the session but those
\* of its action: the flag for play and pause, the flag and the clock for
\* stop (to paused and 0), the clock for seek, the speed for speed; the
\* duration, the lap count and the loaded laps, telemetry and roster never.
CommandChangesOnlyItsFields ==
    [][\A c \in Conns :
          pc[c] = "recv" /\ pc'[c] = "tick" /\ data'[c].kind = "object" =>
              /\ Changed(st[c], st'[c]) \subseteq FieldsOf(data'[c].action)
              /\ data'[c].action = "stop" =>
                     ~st'[c].is_playing /\ st'[c].current_time_ms = 0]_vars

\* seek(4) was applied to a playing session at another time: it is still
\* playing, at its speed of 0.5.
CommandChangesOnlyItsFieldsWitness ==
    /\ pc["a"] = "tick"
    /\ data["a"] = Seek(JNum(4))
    /\ st["a"].is_playing
    /\ st["a"].current_time_ms = 4
    /\ st["a"].replay_speed = 5
    /\ finished_ever["a"]

\* C27: every frame carries a timestamp_ms below total_duration_ms, and the
\* iteration that sends finished sends no frame: the tick that reaches the
\* end reports the end and not the cars at it.
NoFrameAtTheEnd ==
    \A c \in Conns :
        /\ \A i \in 1..Len(sent[c]) :
               sent[c][i].type = "frame" /\ Running(c) =>
                   sent[c][i].timestamp_ms < st[c].total_duration_ms
        /\ JustSent(c, "finished") =>
               /\ ~HasFrame(sent[c])
               /\ frame_times[c] # <<>> =>
                      Last(frame_times[c]) < st[c].total_duration_ms

\* Frames were sent and then a tick reached the end: it sent finished, and
\* the last frame is from before the end.
NoFrameAtTheEndWitness ==
    /\ JustSent("a", "finished")
    /\ frame_times["a"] # <<>>
    /\ Last(frame_times["a"]) < st["a"].total_duration_ms
    /\ st["a"].current_time_ms = st["a"].total_duration_ms

\* C28: last_frame_time is refreshed by every iteration, playing or not, so
\* it never lags behind the previous measurement; a tick of a paused session
\* leaves the clock where it is, and a tick of a playing session adds the
\* wall time of one iteration times the speed, whatever time was spent
\* paused before.
PausedTimeNotAdded ==
    /\ [](\A c \in Conns : frame_time_lag[c] = 0)
    /\ [][\A c \in Conns :
              pc[c] = "tick" /\ pc'[c] = "recv" =>
                  /\ ~st[c].is_playing =>
                         st'[c].current_time_ms = st[c].current_time_ms
                  /\ st[c].is_playing /\ st'[c].is_playing =>
                         \E dt \in 0..MaxDt :
                             st'[c].current_time_ms =
                                 st[c].current_time_ms + dt * st[c].replay_speed]_vars

\* A session that had sent frames was paused, and the tick of an iteration
\* without a command left its clock at the last frame's time.
PausedTimeNotAddedWitness ==
    /\ pc["a"] = "recv"
    /\ data["a"] = NoData /\ sent["a"] = <<>>
    /\ ~st["a"].is_playing
    /\ ~at_end["a"]
    /\ frame_times["a"] # <<>>
    /\ st["a"].current_time_ms = Last(frame_times["a"])

\* The lap of lowest lap_number among the laps of the driver around time_ms.
LowestLapAround(state, driver_id, time_ms) ==
    LET around == LapsAround(state, driver_id, time_ms)
    IN state.laps[CHOOSE i \in around :
                      \A j \in around :
                          state.laps[i].lap_number <= state.laps[j].lap_number]

\* C29: at a time in the closed intervals of two laps of a driver, a lap
\* without lap_time_ms counting as the instant of its start,
\* interpolate_position uses the lap of lowest lap_number: it returns that
\* lap's car state, or None when that lap has no telemetry.
LowestLapWins ==
    \A c \in Conns :
        Running(c) =>
            \A d \in ProbeDrivers, t \in ProbeTimes :
                Cardinality(LapsAround(st[c], d, t)) >= 2 =>
                    LET lap == LowestLapAround(st[c], d, t)
                        got == InterpolatePosition(st[c], d, t)
                    IN IF HasTelemetry(st[c], lap)
                       THEN /\ got # None
                            /\ got[1].lap_number = lap.lap_number
                            /\ got[1].position = OrZero(lap.position)
                       ELSE got = None

\* A frame was sent at a time in the intervals of both laps of driver 1, both
\* with telemetry: its car is at a sample of lap 1 (x of 1 or 2), not at the
\* sample of lap 2 (x of 5).
LowestLapWinsWitness ==
    /\ JustSent("a", "frame")
    /\ Cardinality(LapsAround(st["a"], 1, Last(sent["a"]).timestamp_ms)) = 2
    /\ \A k \in LapsOf(st["a"], 1) : HasTelemetry(st["a"], st["a"].laps[k])
    /\ Last(sent["a"]).cars # <<>>
    /\ Last(sent["a"]).cars[1].driver_id = 1
    /\ Last(sent["a"]).cars[1].x \in {1, 2}

\* C30: a seek message without time_ms sets current_time_ms to 0 and a speed
\* message without speed sets replay_speed to 1.0; both leave is_playing and
\* the other field as they were, and the status acknowledgment is sent.
MissingFieldDefaults ==
    [][\A c \in Conns :
           pc[c] = "recv" /\ pc'[c] = "tick" /\ actor' = c =>
               /\ data'[c] = Seek(Absent) =>
                      /\ st'[c].current_time_ms = 0
                      /\ st'[c].current_time_type = "number"
                      /\ st'[c].is_playing = st[c].is_playing
                      /\ st'[c].replay_speed = st[c].replay_speed
                      /\ sent'[c] = <<StatusMessage(st'[c])>>
               /\ data'[c] = Speed(Absent) =>
                      /\ st'[c].replay_speed = SpeedDefault
                      /\ st'[c].is_playing = st[c].is_playing
                      /\ st'[c].current_time_ms = st[c].current_time_ms
                      /\ sent'[c] = <<StatusMessage(st'[c])>>]_vars

\* While playing past time 0, viewer a sent a speed message without speed:
\* the status shows speed 1.0, still playing, at the time a seek or another
\* speed had reached (no multiple of what speed 1.0 advances).
MissingFieldDefaultsWitness ==
    /\ pc["a"] = "tick"
    /\ data["a"] = Speed(Absent)
    /\ sent["a"] = <<StatusMessage(st["a"])>>
    /\ st["a"].is_playing
    /\ st["a"].current_time_ms > 0
    /\ st["a"].current_time_ms % SpeedDefault # 0
    /\ st["a"].replay_speed = SpeedDefault

====
